---- MODULE Spec2Model ----
(***************************************************************************)
(* Caffeine half-life widget (mattppal/caffeine-half-life).                *)
(*                                                                         *)
(* The repository holds three near-duplicate React components:             *)
(*   "App1"    src/src/App.jsx lines 1-224                                 *)
(*   "App2"    src/src/App.jsx lines 225-414                               *)
(*   "part000" src/unnamed/part_000                                        *)
(* They share addIntake, removeIntake, updateIntake, validateIntakes and   *)
(* the chartData memo; they differ in the seed amount and in whether the   *)
(* first row has a remove button.                                          *)
(*                                                                         *)
(* Numbers.  JavaScript numbers are modelled exactly on a grid:            *)
(*   - a time is an integer number of ticks, 1 tick = 1/300 hour, so that  *)
(*     both whole minutes (5 ticks) and hundredths of an hour (3 ticks)    *)
(*     are representable;                                                  *)
(*   - an amount is an integer number of hundredths of a mg;               *)
(*   - NaN is a distinguished value on which every comparison is false and *)
(*     which every arithmetic operation propagates;                        *)
(*   - a caffeine level is a real number  sum_r c[r] * 2^(-r/300) / 16,    *)
(*     kept as the finite function r |-> c[r] (r in 0..299, c[r] > 0).     *)
(*     The numbers 2^(-r/300), r in 0..299, are linearly independent over  *)
(*     the rationals, so two levels are equal as reals iff the functions   *)
(*     are equal.  Floating-point rounding is not modelled.                *)
(***************************************************************************)
EXTENDS Integers, Sequences, FiniteSets, TLC

\* ---------------------------------------------------------------- bounds
MaxIntakes == 2
MaxEvents == 2
MaxActions == 2

\* ------------------------------------------------------ program constants
CAFFEINE_HALF_LIFE == 5
TOTAL_DURATION == 24

\* ------------------------------------------------------- number modelling
NaN == -1000000000
TicksPerMinute == 5
AmountScale == 100
TicksPerHour == TicksPerMinute * 60
Hours(h) == h * TicksPerHour
Mg(a) == a * AmountScale
N == TOTAL_DURATION * 60
\* Mutant of HalfLifeMinutes: a half-life of 6 hours.
HalfLifeMinutesOfSix == 6 * 60
HalfLifeMinutes == CAFFEINE_HALF_LIFE * 60
MaxHalvings == (N - 1) \div HalfLifeMinutes

IsNaN(x) == x = NaN
JsAdd(a, b) == IF IsNaN(a) \/ IsNaN(b) THEN NaN ELSE a + b
JsSub(a, b) == IF IsNaN(a) \/ IsNaN(b) THEN NaN ELSE a - b
\* JavaScript %: the result takes the sign of the dividend.
JsRem(a, m) == IF IsNaN(a) THEN NaN ELSE IF a >= 0 THEN a % m ELSE 0 - ((0 - a) % m)
JsLt(a, b) == ~IsNaN(a) /\ ~IsNaN(b) /\ a < b
JsLe(a, b) == ~IsNaN(a) /\ ~IsNaN(b) /\ a <= b
JsGt(a, b) == ~IsNaN(a) /\ ~IsNaN(b) /\ a > b
JsGe(a, b) == ~IsNaN(a) /\ ~IsNaN(b) /\ a >= b

RECURSIVE Pow2(_)
Pow2(n) == IF n = 0 THEN 1 ELSE 2 * Pow2(n - 1)

\* ------------------------------------------------------------- Number(value)
\* A raw input value is a sequence of one-character strings; Undefined is the
\* value a destructuring of a too-short array yields.
Undefined == <<"undefined">>
Digits == {"0", "1", "2", "3", "4", "5", "6", "7", "8", "9"}
DigitValue(c) == CASE c = "0" -> 0 [] c = "1" -> 1 [] c = "2" -> 2 [] c = "3" -> 3
                   [] c = "4" -> 4 [] c = "5" -> 5 [] c = "6" -> 6 [] c = "7" -> 7
                   [] c = "8" -> 8 [] c = "9" -> 9

RECURSIVE ParseDigits(_, _)
ParseDigits(s, acc) ==
    IF Len(s) = 0 THEN acc ELSE ParseDigits(Tail(s), 10 * acc + DigitValue(Head(s)))

AllDigits(s) == \A i \in 1..Len(s) : s[i] \in Digits

\* Number(value) in hundredths: "" is 0, an optionally signed decimal numeral
\* with at most two fraction digits is its value, anything else is NaN.
UnsignedNumber(s) ==
    LET dots == {i \in 1..Len(s) : s[i] = "."}
    IN  IF dots = {}
        THEN IF Len(s) > 0 /\ AllDigits(s) THEN AmountScale * ParseDigits(s, 0) ELSE NaN
        ELSE LET d == CHOOSE i \in dots : TRUE
                 ip == SubSeq(s, 1, d - 1)
                 fp == SubSeq(s, d + 1, Len(s))
             IN  IF Cardinality(dots) = 1 /\ AllDigits(ip) /\ AllDigits(fp)
                    /\ Len(ip) + Len(fp) > 0 /\ Len(fp) <= 2
                 THEN AmountScale * ParseDigits(ip, 0)
                      + (IF Len(fp) = 1 THEN 10 ELSE 1) * ParseDigits(fp, 0)
                 ELSE NaN

ToNumber(s) ==
    IF s = Undefined THEN NaN
    ELSE IF Len(s) = 0 THEN 0
    ELSE IF Head(s) = "-"
         THEN LET u == UnsignedNumber(Tail(s)) IN IF IsNaN(u) THEN NaN ELSE 0 - u
         ELSE UnsignedNumber(s)

\* value.split(':') followed by the destructuring [hours, minutes].
SplitColon(s) ==
    LET colons == {i \in 1..Len(s) : s[i] = ":"}
    IN  IF colons = {}
        THEN [hours |-> s, minutes |-> Undefined]
        ELSE LET c == CHOOSE i \in colons : \A j \in colons : i <= j
                 rest == SubSeq(s, c + 1, Len(s))
                 more == {i \in 1..Len(rest) : rest[i] = ":"}
                 c2 == IF more = {} THEN Len(rest) + 1
                       ELSE CHOOSE i \in more : \A j \in more : i <= j
             IN  [hours |-> SubSeq(s, 1, c - 1), minutes |-> SubSeq(rest, 1, c2 - 1)]

\* Number(hours) + Number(minutes) / 60, in ticks.
TimeOfInput(s) ==
    LET p == SplitColon(s)
        h == ToNumber(p.hours)
        m == ToNumber(p.minutes)
    IN  IF IsNaN(h) \/ IsNaN(m) THEN NaN
        ELSE (h * TicksPerHour) \div AmountScale
             + (m * TicksPerMinute) \div AmountScale

\* ------------------------------------------------------------ validateIntakes
TimeError == "Time must be between 0 and 23.99 hours"
AmountError == "Caffeine amount must be between 1 and 1000 mg"
NoError == ""

\* intake.time < 0 || intake.time >= 24
TimeOutOfRange(time) == JsLt(time, Hours(0)) \/ JsGe(time, Hours(24))
\* intake.amount <= 0 || intake.amount > 1000
AmountOutOfRange(amount) == JsLe(amount, Mg(0)) \/ JsGt(amount, Mg(1000))

\* The for loop from position i on: the message of the first setError reached.
RECURSIVE validateFrom(_, _)
validateFrom(list, i) ==
    IF i > Len(list) THEN NoError
    ELSE IF TimeOutOfRange(list[i].time) THEN TimeError
    ELSE IF AmountOutOfRange(list[i].amount) THEN AmountError
    ELSE validateFrom(list, i + 1)

\* The error message validateIntakes sets; it returns true iff this is NoError.
validateIntakes(list) == validateFrom(list, 1)

\* ------------------------------------------------------------------ chartData
\* [...intakes].sort((a, b) => a.time - b.time): a stable sort when the
\* comparator is consistent.  With a NaN time the comparator is inconsistent
\* and the order is implementation-defined: any permutation.
RECURSIVE InsertByTime(_, _)
InsertByTime(sorted, e) ==
    IF Len(sorted) = 0 THEN <<e>>
    ELSE IF sorted[Len(sorted)].time <= e.time THEN Append(sorted, e)
    ELSE Append(InsertByTime(SubSeq(sorted, 1, Len(sorted) - 1), e), sorted[Len(sorted)])

RECURSIVE StableSort(_)
StableSort(list) ==
    IF Len(list) = 0 THEN <<>>
    ELSE InsertByTime(StableSort(SubSeq(list, 1, Len(list) - 1)), list[Len(list)])

Orderings(list) ==
    {[i \in 1..Len(list) |-> list[p[i]]] : p \in Permutations(1..Len(list))}

SortedIntakes(list) ==
    IF \E i \in 1..Len(list) : IsNaN(list[i].time)
    THEN Orderings(list)
    ELSE {StableSort(list)}

\* Mutant of SampleTime: the wrap past midnight is forgotten.
SampleTimeNoWrap(startTime, minute) ==
    IF IsNaN(startTime) THEN NaN ELSE startTime + minute * TicksPerMinute

\* (startTime + minute / 60) % 24; startTime is never negative here, since it
\* passed validateIntakes.
SampleTime(startTime, minute) ==
    IF IsNaN(startTime) THEN NaN ELSE (startTime + minute * TicksPerMinute) % Hours(24)

\* Math.round((intake.time - startTime + 24) % 24 * 60); Math.round rounds a
\* half up.
IntakeMinute(time, startTime) ==
    LET u == JsRem(JsAdd(JsSub(time, startTime), Hours(24)), Hours(24))
    IN  IF IsNaN(u) THEN NaN ELSE (2 * u + TicksPerMinute) \div (2 * TicksPerMinute)

\* The intakeMinute of each element of sortedIntakes, in order.
RECURSIVE IntakeMinutes(_, _, _)
IntakeMinutes(sorted, startTime, i) ==
    IF i = 0 THEN <<>>
    ELSE Append(IntakeMinutes(sorted, startTime, i - 1),
                IntakeMinute(sorted[i].time, startTime))

\* Mutant of TimeSinceIntake: the plain difference, negative before the intake.
TimeSinceIntakeNoWrap(minute, intakeMinute) ==
    IF IsNaN(intakeMinute) THEN NaN ELSE minute - intakeMinute

\* (minute - intakeMinute + TOTAL_DURATION * 60) % (TOTAL_DURATION * 60) / 60,
\* in minutes.  intakeMinute is at most TOTAL_DURATION * 60, so the dividend is
\* never negative.
TimeSinceIntake(minute, intakeMinute) ==
    IF IsNaN(intakeMinute) THEN NaN ELSE (minute - intakeMinute + N) % N

ZeroLevel == <<>>
NaNLevel == (NaN :> NaN)

\* level + amount * Math.pow(0.5, timeSinceIntake / CAFFEINE_HALF_LIFE):
\* 0.5^(t/300) = 2^(-q) * 2^(-r/300) with t = 300 q + r.
AddDecayed(level, amount, timeSinceIntake) ==
    IF IsNaN(amount) \/ level = NaNLevel THEN NaNLevel
    ELSE LET r == timeSinceIntake % HalfLifeMinutes
             c == amount * Pow2(MaxHalvings - (timeSinceIntake \div HalfLifeMinutes))
         IN  IF r \in DOMAIN level THEN [level EXCEPT ![r] = @ + c] ELSE level @@ (r :> c)

\* data[minute].caffeine once the forEach has run over sortedIntakes from
\* position i on; the guard timeSinceIntake >= 0 is false for NaN only.
RECURSIVE CaffeineFrom(_, _, _, _, _)
CaffeineFrom(sorted, intakeMinutes, minute, i, level) ==
    IF i > Len(sorted) THEN level
    ELSE CaffeineFrom(sorted, intakeMinutes, minute, i + 1,
             IF JsGe(TimeSinceIntake(minute, intakeMinutes[i]), 0)
             THEN AddDecayed(level, sorted[i].amount, TimeSinceIntake(minute, intakeMinutes[i]))
             ELSE level)

\* The array built for sortedIntakes with the given intakeMinute values.
SeriesOf(sorted, startTime, intakeMinutes) ==
    [minute \in 0..(N - 1) |->
        [time |-> SampleTime(startTime, minute),
         caffeine |-> CaffeineFrom(sorted, intakeMinutes, minute, 1, ZeroLevel)]]

\* The array the memo returns for a validated, non-empty, sorted list.
Series(sorted) ==
    SeriesOf(sorted, sorted[1].time, IntakeMinutes(sorted, sorted[1].time, Len(sorted)))

EmptySeries == <<>>

\* const startTime = sortedIntakes[0].time throws a TypeError on an empty list,
\* in the chartData memo (after validateIntakes returned true) and in the
\* startTime memo.
RenderThrows(list) == Len(list) = 0

\* The value of the chartData memo for the list, `sorted` being what the sort
\* returned; no value (modelled as the empty array) when the render throws.
chartDataMemo(list, sorted) ==
    IF validateIntakes(list) # NoError THEN EmptySeries
    ELSE IF RenderThrows(list) THEN EmptySeries
    ELSE Series(sorted)

\* ---------------------------------------------------------------------- state
VARIABLES
    variant,    \* which of the three components is mounted
    intakes,    \* useState: the list of {time, amount}
    error,      \* useState: the message validateIntakes last set
    chartData,  \* useMemo: the array last returned for intakes
    crashed,    \* the render threw a TypeError and the component is gone
    pc,         \* "render": the memo is stale and about to be evaluated; "idle"
    nActions    \* how many handlers have run (bounded by MaxActions)

vars == <<variant, intakes, error, chartData, crashed, pc, nActions>>

Variants == {"App1", "App2", "part000"}

\* useState([{ time: 6, amount: 100 }]); 75 in the second component of App.jsx.
SeedAmount(v) == IF v = "App2" THEN Mg(75) ELSE Mg(100)
SeedIntakes(v) == <<[time |-> Hours(6), amount |-> SeedAmount(v)]>>

\* The first row has a remove button except in part_000 (index !== 0 &&).
HasRemoveButton(v, index) == v # "part000" \/ index # 0

\* The re-render a setIntakes(newIntakes) causes: chartData and error follow.
Rerender(newIntakes) ==
    \E sorted \in SortedIntakes(newIntakes) :
        /\ intakes' = newIntakes
        /\ error' = validateIntakes(newIntakes)
        /\ chartData' = chartDataMemo(newIntakes, sorted)
        /\ crashed' = RenderThrows(newIntakes)
        /\ pc' = "idle"
        /\ UNCHANGED variant

Init ==
    /\ variant \in Variants
    /\ intakes = SeedIntakes(variant)
    /\ error = validateIntakes(intakes)
    /\ chartData = chartDataMemo(intakes, StableSort(intakes))
    /\ crashed = RenderThrows(intakes)
    /\ pc = "idle"
    /\ nActions = 0

\* ------------------------------------------------------------------- handlers
\* Mutant of addIntake: the new time is not wrapped modulo 24.
addIntakeNoWrap(list) ==
    LET lastIntake == list[Len(list)]
    IN  Append(list, [time |-> JsAdd(lastIntake.time, Hours(2)), amount |-> Mg(100)])

\* addIntake; index Len(intakes) - 1 is position Len(intakes).
addIntake(list) ==
    LET lastIntake == list[Len(list)]
        first == JsRem(JsAdd(lastIntake.time, Hours(2)), Hours(24))
        newTime == IF JsLe(first, lastIntake.time)
                   THEN JsRem(JsAdd(lastIntake.time, Hours(2)), Hours(24))
                   ELSE first
    IN  Append(list, [time |-> newTime, amount |-> Mg(100)])

\* intakes.filter((_, i) => i !== index)
removeIntake(list, index) ==
    LET keep == {i \in 1..Len(list) : i - 1 # index}
        pos(k) == CHOOSE i \in keep : Cardinality({j \in keep : j < i}) = k - 1
    IN  [k \in 1..Cardinality(keep) |-> list[pos(k)]]

\* newIntakes[index][field] = Number(value)
updateIntake(list, index, field, value) ==
    [list EXCEPT ![index + 1] =
        IF field = "time" THEN [@ EXCEPT !.time = value] ELSE [@ EXCEPT !.amount = value]]

\* What the inputs can report: "" for a cleared field, and typed text.
TimeInputs ==
    {<<>>,
     <<"2", "3", ":", "5", "9">>,
     <<"2", "4", ":", "0", "0">>}
AmountInputs ==
    {<<"a", "b", "c">>,
     <<>>,
     <<"1", "0", "0", "0">>}

AddIntake ==
    /\ pc = "idle" /\ ~crashed /\ nActions < MaxActions
    /\ nActions' = nActions + 1
    /\ Len(intakes) < MaxIntakes
    /\ Rerender(addIntake(intakes))

RemoveIntake(index) ==
    /\ pc = "idle" /\ ~crashed /\ nActions < MaxActions
    /\ nActions' = nActions + 1
    /\ HasRemoveButton(variant, index)
    /\ Rerender(removeIntake(intakes, index))

\* onChange of the time input: split, Number, add, updateIntake.
UpdateTime(index, value) ==
    /\ pc = "idle" /\ ~crashed /\ nActions < MaxActions
    /\ nActions' = nActions + 1
    /\ Rerender(updateIntake(intakes, index, "time", TimeOfInput(value)))

\* onChange of the amount input: updateIntake(index, 'amount', e.target.value).
UpdateAmount(index, value) ==
    /\ pc = "idle" /\ ~crashed /\ nActions < MaxActions
    /\ nActions' = nActions + 1
    /\ Rerender(updateIntake(intakes, index, "amount", ToNumber(value)))

Next ==
    \/ AddIntake
    \/ \E index \in 0..(Len(intakes) - 1) : RemoveIntake(index)
    \/ \E index \in 0..(Len(intakes) - 1), value \in TimeInputs : UpdateTime(index, value)
    \/ \E index \in 0..(Len(intakes) - 1), value \in AmountInputs : UpdateAmount(index, value)

Spec == Init /\ [][Next]_vars

\* ------------------------------------------- validateIntakes as a function
\* validateIntakes() applied once to a list drawn from boundary values:
\* -0.01 h, 0 h, 23.99 h, 24 h, NaN; 0 mg, 1 mg, 1000 mg, 1000.01 mg, NaN.
ValidateTimes == {0 - 3, Hours(0), Hours(24) - 3, Hours(24), NaN}
ValidateAmounts == {Mg(0), Mg(1), Mg(1000), Mg(1000) + 1, NaN}

ListsOver(events, maxLen) ==
    UNION {[1..n -> events] : n \in 0..maxLen}

\* error holds whatever the previous render left there.
InitValidate ==
    /\ variant \in Variants
    /\ intakes \in ListsOver([time : ValidateTimes, amount : ValidateAmounts], MaxEvents)
    /\ error \in {NoError, TimeError, AmountError}
    /\ chartData = EmptySeries
    /\ crashed = FALSE
    /\ pc = "validate"
    /\ nActions = 0

\* Mutant of ValidateStep: the final setError('') is missing, so a message
\* from an earlier render stays when the list is accepted.
ValidateStepKeepsError ==
    /\ pc = "validate"
    /\ error' = IF validateIntakes(intakes) = NoError THEN error
                ELSE validateIntakes(intakes)
    /\ pc' = "validated"
    /\ UNCHANGED <<variant, intakes, chartData, crashed, nActions>>

ValidateStep ==
    /\ pc = "validate"
    /\ error' = validateIntakes(intakes)
    /\ pc' = "validated"
    /\ UNCHANGED <<variant, intakes, chartData, crashed, nActions>>

SpecValidate == InitValidate /\ [][ValidateStep]_vars

\* ------------------------------------------------- chartData as a function
\* One evaluation of the chartData memo on a list of in-range events:
\* 0 h, 6 h, 23.99 h; 1 mg, 1000 mg.
EngineTimes == {Hours(0), Hours(6), Hours(24) - 3}
EngineAmounts == {Mg(1), Mg(1000)}

InitEngine ==
    /\ variant \in Variants
    /\ intakes \in ListsOver([time : EngineTimes, amount : EngineAmounts], MaxEvents)
    /\ error = NoError
    /\ chartData = EmptySeries
    /\ crashed = FALSE
    /\ pc = "render"
    /\ nActions = 0

RenderStep ==
    /\ pc = "render"
    /\ Rerender(intakes)
    /\ UNCHANGED nActions

SpecEngine == InitEngine /\ [][RenderStep]_vars

\* ------------------------------------------------- addIntake as a function
\* One click on the add button, from a non-empty list of events the inputs can
\* produce: 06:00, 22:00, 23:59, a cleared time field; 75 mg.
AddTimes == {Hours(6), Hours(22), Hours(24) - TicksPerMinute, NaN}
AddAmounts == {Mg(75)}

InitAdd ==
    /\ variant \in Variants
    /\ intakes \in ListsOver([time : AddTimes, amount : AddAmounts], MaxEvents)
    /\ Len(intakes) >= 1
    /\ error = validateIntakes(intakes)
    /\ chartData = EmptySeries
    /\ crashed = FALSE
    /\ pc = "add"
    /\ nActions = 0

AddStep ==
    /\ pc = "add"
    /\ Rerender(addIntake(intakes))
    /\ UNCHANGED nActions

SpecAdd == InitAdd /\ [][AddStep]_vars

\* ------------------------------------------------------------------ properties
\* The ranges of the data model, stated on their own: a time is valid when it
\* is a number in [0, 24) hours, an amount when it is a number in (0, 1000] mg.
InTimeRange(time) == time # NaN /\ Hours(0) <= time /\ time < Hours(24)
InAmountRange(amount) == amount # NaN /\ Mg(0) < amount /\ amount <= Mg(1000)
EventValid(e) == InTimeRange(e.time) /\ InAmountRange(e.amount)
AllValid(list) == \A i \in 1..Len(list) : EventValid(list[i])
FullSeries(data) == DOMAIN data = 0..(N - 1)

\* C1: whenever the intake list holds an event with a time outside [0,24) or an
\* amount outside (0,1000], the recomputed series is empty and a non-empty
\* error message is set.
C1_InvalidListGivesNoSeries ==
    ~AllValid(intakes) => (chartData = EmptySeries /\ error # NoError)

\* C2: an update whose raw value parses to NaN (non-numeric amount text, an
\* empty time string) leaves validation failing with the time-range or the
\* amount-range error and the series empty.
C2_NaNUpdateIsRejected ==
    [][\A index \in 0..(Len(intakes) - 1) :
          /\ \A value \in TimeInputs :
                (IsNaN(TimeOfInput(value)) /\ UpdateTime(index, value))
                    => (error' \in {TimeError, AmountError} /\ chartData' = EmptySeries)
          /\ \A value \in AmountInputs :
                (IsNaN(ToNumber(value)) /\ UpdateAmount(index, value))
                    => (error' \in {TimeError, AmountError} /\ chartData' = EmptySeries)
      ]_vars

\* C3: for an empty intake list validation succeeds and the recomputation
\* completes without a crash, producing a series whose every sample is 0.
C3_EmptyListGivesZeroSeries ==
    Len(intakes) = 0 =>
        /\ error = NoError
        /\ ~crashed
        /\ FullSeries(chartData)
        /\ \A minute \in DOMAIN chartData : chartData[minute].caffeine = ZeroLevel

\* C4: in every state reachable by add, remove and update the intake list
\* holds at least one event (index 0 cannot be removed).
C4_ListNeverEmpty == Len(intakes) >= 1

\* C5: validateIntakes succeeds exactly when every event has 0 <= time < 24
\* and 0 < amount <= 1000.
C5_ValidateIffAllInRange ==
    pc = "validated" => (error = NoError <=> AllValid(intakes))

\* C6: when validation fails the error is that of the first violating event in
\* list order, the time rule being checked before the amount rule.
FirstViolation(list) == CHOOSE i \in 1..Len(list) :
    ~EventValid(list[i]) /\ \A j \in 1..(i - 1) : EventValid(list[j])
ErrorOfEvent(e) == IF ~InTimeRange(e.time) THEN TimeError ELSE AmountError
C6_FirstViolationReported ==
    (pc = "validated" /\ error # NoError)
        => error = ErrorOfEvent(intakes[FirstViolation(intakes)])

\* C7: a validation error is neither fatal nor sticky: the error is empty
\* exactly when the list validates; while an error is shown the handlers stay
\* enabled; and the action that leaves every event in range yields the full
\* 1440-sample series and clears the error.
C7_ErrorNeitherFatalNorSticky ==
    /\ [](error = NoError <=> validateIntakes(intakes) = NoError)
    /\ []((error # NoError /\ nActions < MaxActions) =>
            /\ ENABLED UpdateAmount(0, <<"1", "0", "0", "0">>)
            /\ ENABLED UpdateTime(0, <<"2", "3", ":", "5", "9">>)
            /\ ENABLED RemoveIntake(Len(intakes) - 1) \/ Len(intakes) = 1
            /\ ENABLED AddIntake \/ Len(intakes) >= MaxIntakes)
    /\ [][(error # NoError /\ AllValid(intakes'))
            => (error' = NoError /\ FullSeries(chartData'))]_vars

\* C8: for a valid non-empty list the engine returns exactly 1440 samples;
\* sample k has time (start + k/60) mod 24, start being the smallest event
\* time, so sample 0 has time start and every time lies in [0,24).
MinTime(list) == CHOOSE t \in {list[i].time : i \in 1..Len(list)} :
    \A i \in 1..Len(list) : t <= list[i].time
C8_SampleTimes ==
    (pc = "idle" /\ Len(intakes) >= 1 /\ AllValid(intakes)) =>
        /\ FullSeries(chartData)
        /\ chartData[0].time = MinTime(intakes)
        /\ \A k \in 0..(N - 1) :
              /\ chartData[k].time = (MinTime(intakes) + k * TicksPerMinute) % Hours(24)
              /\ InTimeRange(chartData[k].time)
C8_Witness ==
    /\ pc = "idle" /\ Len(intakes) = 2 /\ AllValid(intakes)
    /\ intakes[2].time < intakes[1].time
    /\ FullSeries(chartData)
    /\ chartData[0].time = intakes[2].time
    /\ \E k \in 1..(N - 1) : chartData[k].time < chartData[k - 1].time

\* C9: for a single valid intake of amount a the level is exactly a at step 0,
\* a/2 at step 300 and a/4 at step 600; the level halves every 300 steps.
LevelOf(amount, halvings) == (0 :> amount * Pow2(MaxHalvings - halvings))
Halved(level) == [r \in DOMAIN level |-> level[r] \div 2]
Even(level) == \A r \in DOMAIN level : level[r] % 2 = 0
C9_HalfLifeDecay ==
    (pc = "idle" /\ Len(intakes) = 1 /\ AllValid(intakes)) =>
        /\ chartData[0].caffeine = LevelOf(intakes[1].amount, 0)
        /\ chartData[300].caffeine = LevelOf(intakes[1].amount, 1)
        /\ chartData[600].caffeine = LevelOf(intakes[1].amount, 2)
        /\ \A k \in 0..(N - 1 - 300) :
              /\ Even(chartData[k].caffeine)
              /\ chartData[k + 300].caffeine = Halved(chartData[k].caffeine)
C9_Witness ==
    /\ pc = "idle" /\ Len(intakes) = 1 /\ AllValid(intakes)
    /\ intakes[1].amount = Mg(1000)
    /\ FullSeries(chartData)
    /\ chartData[600].caffeine = (0 :> Mg(250) * Pow2(MaxHalvings))

\* C10: for two valid intakes at different times, the level of the combined
\* series at a nominal time equals the sum of the levels the two single-intake
\* series, each computed by the engine on its own, have at that time.  A
\* series has one sample per minute from its own start, so a single-intake
\* series has a sample at time t iff t is a whole number of minutes after the
\* intake, and then it is sample number (t - intake time) mod 24 h.
LevelSum(a, b) ==
    IF a = NaNLevel \/ b = NaNLevel THEN NaNLevel
    ELSE [r \in (DOMAIN a) \cup (DOMAIN b) |->
            (IF r \in DOMAIN a THEN a[r] ELSE 0) + (IF r \in DOMAIN b THEN b[r] ELSE 0)]
Since(t, from) == (t - from + Hours(24)) % Hours(24)
SampledAt(t, from) == Since(t, from) % TicksPerMinute = 0
C10_Superposition ==
    (pc = "idle" /\ Len(intakes) = 2 /\ AllValid(intakes)
        /\ intakes[1].time # intakes[2].time) =>
        \A k \in 0..(N - 1) :
            LET t == chartData[k].time
                j1 == Since(t, intakes[1].time) \div TicksPerMinute
                j2 == Since(t, intakes[2].time) \div TicksPerMinute
                first == Series(StableSort(<<intakes[1]>>))
                second == Series(StableSort(<<intakes[2]>>))
            IN  (SampledAt(t, intakes[1].time) /\ SampledAt(t, intakes[2].time)) =>
                    /\ first[j1].time = t
                    /\ second[j2].time = t
                    /\ chartData[k].caffeine = LevelSum(first[j1].caffeine, second[j2].caffeine)
C10_Witness ==
    /\ pc = "idle" /\ Len(intakes) = 2 /\ AllValid(intakes)
    /\ intakes[1].time = Hours(6) /\ intakes[2].time = Hours(0)
    /\ FullSeries(chartData)
    /\ chartData[0].caffeine =
          LevelSum(Series(<<intakes[2]>>)[0].caffeine, Series(<<intakes[1]>>)[18 * 60].caffeine)
    /\ Cardinality(DOMAIN chartData[1].caffeine) = 2

ElapsedAt(k, time, start) == TimeSinceIntake(k, IntakeMinute(time, start))
RECURSIVE ExhaustiveSum(_, _, _, _)
ExhaustiveSum(list, start, k, i) ==
    IF i = 0 THEN ZeroLevel
    ELSE AddDecayed(ExhaustiveSum(list, start, k, i - 1),
                    list[i].amount, ElapsedAt(k, list[i].time, start))
C12_EveryEventContributes ==
    FullSeries(chartData) =>
        LET start == chartData[0].time
        IN  /\ \A i \in 1..Len(intakes), k \in 0..(N - 1) :
                  LET m == IntakeMinute(intakes[i].time, start)
                      elapsed == ElapsedAt(k, intakes[i].time, start)
                  IN  /\ elapsed \in 0..(N - 1)
                      /\ JsGe(elapsed, 0)
                      /\ k >= m => elapsed = k - m
                      /\ k < m => elapsed = N - (m - k)
            /\ \A k \in 0..(N - 1) :
                  chartData[k].caffeine = ExhaustiveSum(intakes, start, k, Len(intakes))

\* C13 as stated: validate is a pure predicate; running it on the current list
\* changes no stored value, neither the intake list nor the error message.
C13_ValidatorIsPure ==
    [][pc = "validate" =>
        UNCHANGED <<variant, intakes, error, chartData, crashed, nActions>>]_vars

\* C13 as amended: running validate leaves the intake list and every other
\* stored value alone except the error message, which it sets to the message
\* of the first check that fails (time before amount, in list order) and
\* clears when no check fails.
C13_ValidatorSetsOnlyTheError ==
    [][pc = "validate" =>
        /\ UNCHANGED <<variant, intakes, chartData, crashed, nActions>>
        /\ LET failing == {i \in 1..Len(intakes) :
                              \/ TimeOutOfRange(intakes[i].time)
                              \/ AmountOutOfRange(intakes[i].amount)}
           IN  IF failing = {} THEN error' = NoError
               ELSE LET f == CHOOSE i \in failing : \A j \in failing : i <= j
                    IN  error' = IF TimeOutOfRange(intakes[f].time)
                                 THEN TimeError ELSE AmountError]_vars

\* validate has run on a list whose second event is at 24 h and has stored the
\* time message.
C13_Witness ==
    /\ pc = "validated"
    /\ Len(intakes) = 2
    /\ intakes[1] = [time |-> Hours(0), amount |-> Mg(1)]
    /\ intakes[2] = [time |-> Hours(24), amount |-> Mg(0)]
    /\ error = TimeError

====
